---- MODULE Spec2Model ----
(***************************************************************************)
(* One-time-code session lifecycle (netlify/functions/api.ts) and the      *)
(* WebSocket connection registry with its notification fan-out             *)
(* (server/email.ts, the websocket part).                                  *)
(***************************************************************************)
EXTENDS Integers, Sequences, FiniteSets, TLC

(* ------------------------------ bounds -------------------------------- *)

\* concurrent /auth/verify-otp requests in flight
MaxReqs == 2
\* the clock runs over 0, the expiry of a code issued at 0, and up to MaxLate ms
\* past that expiry
MaxLate == 1
\* mismatches counted per issued code (the count saturates)
MaxRetries == 2
\* WebSocket connections alive at once
MaxConns == 2
\* notify calls made
MaxEvents == 2
\* auth calls of the browser in flight at once
MaxCalls == 2
\* image requests uploaded while the admin dashboard is open
MaxUploads == 2
RandomGrain == 1000

(* --------------------------- OTP: constants --------------------------- *)

\* a five-minute lifetime
OtpTtlFiveMinutes == 5 * 60 * 1000

\* 10 * 60 * 1000 ms
OtpTtlMs == 10 * 60 * 1000

AdminEmail == "abhijeet18012001@gmail.com"
Emails == {AdminEmail, "a@x.com"}
FullNames == {"Ann", "Bob"}
\* values generateOTP can return; clients submit these too
Codes == {"482913", "731002"}

Instants == {0} \cup {OtpTtlMs + k : k \in 0..MaxLate}

Reqs == 1..MaxReqs

VARIABLES
  otp_sessions,   \* collection otp_sessions: a set of documents
  users,          \* collection users: a set of documents
  now,            \* the clock (ms)
  reqs,           \* the verify-otp requests in flight, by slot
  lastCode,       \* history: per email, the code of the latest upsert
  prevCode,       \* history: per email, the other code that upsert replaced unused
  consumed,       \* history: per email, the matched-and-deleted code since the latest upsert
  retries         \* history: per email, mismatches since the latest upsert

otpVars == <<otp_sessions, users, now, reqs, lastCode, prevCode, consumed, retries>>

VARIABLES
  clients,        \* const clients: Set<WSClient>, as the set of its connections
  client,         \* per connection, its WSClient object's userId and role
  ws,             \* per connection, its socket's readyState
  evq,            \* per connection, the socket events emitted and not yet handled
  inbox,          \* per connection, the frames ws.send has written, in order
  handled,        \* history: per connection, how many close/error events were handled
  lastReg,        \* history: per connection, the fields of its latest register frame
  nsent,          \* history: how many notify calls were made
  lastDispatch    \* history: the message of the latest notify call

wsVars == <<clients, client, ws, evq, inbox, handled, lastReg, nsent, lastDispatch>>

VARIABLES
  image_requests, \* collection image_requests: a set of documents
  up,             \* the POST /api/images/upload request in flight, or the last one answered
  ed,             \* the POST /api/admin/upload-edited/:requestId request, likewise
  dropped         \* history: the ids of the messages last written to a socket that then failed

imgVars == <<image_requests, up, ed, dropped>>

VARIABLES
  lastFrame       \* history: per connection, the type of the latest frame its handler got

obsVars == <<lastFrame>>

\* what the OTP handlers and the registry's own handlers never touch
VARIABLES
  agent           \* per dashboard, its client presence agent

agentVars == <<agent>>

VARIABLES
  auth            \* the browser: the AuthProvider's state, the location, the calls in flight

clientVars == <<auth>>

VARIABLES
  dash            \* the admin dashboard's request list, its fetch and its socket's messages

dashVars == <<dash>>

\* the state of the browser
uiVars == <<agentVars, clientVars, dashVars>>

VARIABLES
  gen             \* the latest Math.random() value and what generateOTP made of it

genVars == <<gen>>

VARIABLES
  wins            \* history: per code, the verifies answered success since it was last issued

winVars == <<wins>>

VARIABLES
  fault           \* history: the requests whose storage call threw, the latest request-otp's answer

faultVars == <<fault>>

\* what the OTP handlers, the registry and the store's faults never touch
otherVars == <<imgVars, obsVars, uiVars, genVars, winVars>>

moreVars == <<otherVars, faultVars>>

vars == <<otpVars, wsVars, moreVars>>

(* --------------------------- generateOTP ------------------------------ *)

\* Math.random() as the fractions k / RandomGrain of [0, 1), by their numerator
Randoms == 0..(RandomGrain - 1)

\* Number.prototype.toString of a non-negative integer: its decimal digits
RECURSIVE NumberToString(_)
NumberToString(n) == IF n < 10 THEN <<n>> ELSE Append(NumberToString(n \div 10), n % 10)

\* a six-digit code made as Math.floor(Math.random() * 1000000).toString()
generateOTPUnpadded(k) == NumberToString((k * 1000000) \div RandomGrain)

\* Math.floor(100000 + Math.random() * 900000).toString()
generateOTP(k) == NumberToString(100000 + (k * 900000) \div RandomGrain)

GenInit == gen = [random |-> 0, otp |-> <<>>]

\* a call of generateOTP
Generate(k) ==
  /\ gen' = [random |-> k, otp |-> generateOTP(k)]
  /\ UNCHANGED <<otpVars, wsVars, imgVars, obsVars, uiVars, faultVars, winVars>>

(* --------------------------- OTP: documents --------------------------- *)

SessionDoc(email, fullName, otp, expiresAt) ==
  [email |-> email, fullName |-> fullName, otp |-> otp, expiresAt |-> expiresAt]

UserDoc(email, fullName) ==
  [email |-> email, fullName |-> fullName,
   role |-> IF email = AdminEmail THEN "admin" ELSE "user"]

SessionsOf(coll, email) == {d \in coll : d.email = email}

\* the upsert written as a plain insertOne
InsertSession(coll, doc) == coll \cup {doc}

\* updateOne({email}, {$set: {email, fullName, otp, expiresAt}}, {upsert: true})
UpsertSession(coll, doc) ==
  IF SessionsOf(coll, doc.email) = {}
  THEN coll \cup {doc}
  ELSE (coll \ {CHOOSE d \in SessionsOf(coll, doc.email) : TRUE}) \cup {doc}

\* deleteOne({email}): one matching document goes, none if there is none
DeleteSession(coll, email) ==
  IF SessionsOf(coll, email) = {}
  THEN coll
  ELSE coll \ {CHOOSE d \in SessionsOf(coll, email) : TRUE}

\* a verify-otp request: pc, the body's email and otp, the session findOne gave
\* it (a set: empty for null), the time new Date() gave it, its outcome; and
\* what the history said when it read (sub: the submitted code is the latest
\* upsert's, the previous one's, or neither; replay: that code was already
\* consumed; tries: mismatches so far; solo: no other verify for the email was
\* in flight with it)
IdleReq ==
  [pc |-> "idle", email |-> "", otp |-> "", session |-> {}, at |-> 0, result |-> "",
   sub |-> "", replay |-> FALSE, tries |-> 0, solo |-> TRUE]

InFlight(r) == reqs[r].pc \notin {"idle", "done"}

\* a handler returns its response in the turn that computed it: nothing else runs
\* between a request reaching "done" and Respond
NoneDone == \A r \in Reqs : reqs[r].pc # "done"

\* the free slot a new request takes
FreeSlot(r) == reqs[r].pc = "idle" /\ \A q \in Reqs : q < r => reqs[q].pc # "idle"

Standing(email, otp) ==
  IF otp # "" /\ otp = lastCode[email] THEN "latest"
  ELSE IF otp # "" /\ otp = prevCode[email] THEN "previous"
  ELSE "other"

OtpInit ==
  /\ otp_sessions = {}
  /\ users = {}
  /\ now = 0
  /\ reqs = [r \in Reqs |-> IdleReq]
  /\ lastCode = [e \in Emails |-> ""]
  /\ prevCode = [e \in Emails |-> ""]
  /\ consumed = [e \in Emails |-> ""]
  /\ retries = [e \in Emails |-> 0]

\* the history of an email whose session has left the store: there is no code
\* to stand against, and no mismatch to count
Cleared(hist, email, init) == [hist EXCEPT ![email] = init]

(* ------------------- POST /auth/request-otp --------------------------- *)

\* the first of two back-to-back upserts: its session is still the stored one and
\* no verify has read it or is reading it
Untouched(email) ==
  /\ \E d \in otp_sessions : d.email = email /\ d.otp = lastCode[email]
  /\ retries[email] = 0
  /\ consumed[email] = ""
  /\ \A r \in Reqs : InFlight(r) => reqs[r].email # email

\* a replace made of a deleteOne and, on the next request, an insert
RequestOtpDeleteFirst(email, fullName, otp) ==
  LET doc == SessionDoc(email, fullName, otp, now + OtpTtlMs) IN
  /\ NoneDone
  /\ otp_sessions' = IF SessionsOf(otp_sessions, email) # {}
                     THEN DeleteSession(otp_sessions, email)
                     ELSE otp_sessions \cup {doc}
  /\ prevCode' = [prevCode EXCEPT ![email] = ""]
  /\ lastCode' = [lastCode EXCEPT ![email] =
                    IF SessionsOf(otp_sessions, email) # {} THEN "" ELSE otp]
  /\ consumed' = [consumed EXCEPT ![email] = ""]
  /\ retries' = [retries EXCEPT ![email] = 0]
  /\ UNCHANGED <<users, now, reqs, wsVars>>

RequestOtp(email, fullName, otp) ==
  LET doc == SessionDoc(email, fullName, otp, now + OtpTtlMs) IN
  /\ NoneDone
  /\ otp_sessions' = UpsertSession(otp_sessions, doc)
  /\ prevCode' = [prevCode EXCEPT ![email] =
                    IF Untouched(email) /\ lastCode[email] # otp
                    THEN lastCode[email] ELSE ""]
  /\ lastCode' = [lastCode EXCEPT ![email] = otp]
  /\ consumed' = [consumed EXCEPT ![email] = ""]
  /\ retries' = [retries EXCEPT ![email] = 0]
  /\ UNCHANGED <<users, now, reqs, wsVars>>

(* -------------------- POST /auth/verify-otp --------------------------- *)

\* the handler with the code compared before the expiry
VerifyBranchCodeFirst(email, otp, found, clock) ==
  IF email = "" \/ otp = "" THEN [pc |-> "done", result |-> "badrequest"]
  ELSE IF found = {} THEN [pc |-> "done", result |-> "nosession"]
  ELSE LET session == CHOOSE d \in found : TRUE IN
       IF session.otp # otp THEN [pc |-> "done", result |-> "mismatch"]
       ELSE IF clock > session.expiresAt THEN [pc |-> "deleteExpired", result |-> ""]
       ELSE [pc |-> "deleteMatched", result |-> ""]

\* the handler with the expiry compared by >=
VerifyBranchExpiresEarly(email, otp, found, clock) ==
  IF email = "" \/ otp = "" THEN [pc |-> "done", result |-> "badrequest"]
  ELSE IF found = {} THEN [pc |-> "done", result |-> "nosession"]
  ELSE LET session == CHOOSE d \in found : TRUE IN
       IF clock >= session.expiresAt THEN [pc |-> "deleteExpired", result |-> ""]
       ELSE IF session.otp # otp THEN [pc |-> "done", result |-> "mismatch"]
       ELSE [pc |-> "deleteMatched", result |-> ""]

\* the handler without its null check: session.expiresAt of null throws, and the
\* outer catch answers 500
VerifyBranchNoNullCheck(email, otp, found, clock) ==
  IF email = "" \/ otp = "" THEN [pc |-> "done", result |-> "badrequest"]
  ELSE IF found = {} THEN [pc |-> "done", result |-> "error"]
  ELSE LET session == CHOOSE d \in found : TRUE IN
       IF clock > session.expiresAt THEN [pc |-> "deleteExpired", result |-> ""]
       ELSE IF session.otp # otp THEN [pc |-> "done", result |-> "mismatch"]
       ELSE [pc |-> "deleteMatched", result |-> ""]

\* what the handler does with the session findOne returned (found: a set with
\* that document, or empty): the pc it goes to and the response it gives
VerifyBranch(email, otp, found, clock) ==
  IF email = "" \/ otp = "" THEN [pc |-> "done", result |-> "badrequest"]
  ELSE IF found = {} THEN [pc |-> "done", result |-> "nosession"]
  ELSE LET session == CHOOSE d \in found : TRUE IN
       IF clock > session.expiresAt THEN [pc |-> "deleteExpired", result |-> ""]
       ELSE IF session.otp # otp THEN [pc |-> "done", result |-> "mismatch"]
       ELSE [pc |-> "deleteMatched", result |-> ""]

\* what findOne({email}) can return: one of the matching documents, or null; a
\* request that fails validation never reads
FindSession(coll, email, otp) ==
  IF email = "" \/ otp = "" \/ SessionsOf(coll, email) = {}
  THEN {{}}
  ELSE {{d} : d \in SessionsOf(coll, email)}

\* the request arrives, is validated, reads the session and compares
VerifyOtp(r, email, otp) ==
  /\ NoneDone
  /\ FreeSlot(r)
  /\ \E found \in FindSession(otp_sessions, email, otp) :
       LET b == VerifyBranch(email, otp, found, now)
           alone == \A q \in Reqs : InFlight(q) => reqs[q].email # email
       IN
       /\ reqs' = [q \in Reqs |->
            IF q = r
            THEN [pc |-> b.pc, email |-> email, otp |-> otp,
                  session |-> found, at |-> now, result |-> b.result,
                  sub |-> Standing(email, otp),
                  replay |-> (otp # "" /\ consumed[email] = otp),
                  tries |-> retries[email],
                  solo |-> alone]
            ELSE IF InFlight(q) /\ reqs[q].email = email
                 THEN [reqs[q] EXCEPT !.solo = FALSE]
                 ELSE reqs[q]]
       /\ retries' = [retries EXCEPT ![email] =
                        IF b.result = "mismatch" /\ @ < MaxRetries THEN @ + 1 ELSE @]
  /\ UNCHANGED <<otp_sessions, users, now, lastCode, prevCode, consumed, wsVars>>

\* await deleteOne({email}); return 400 "OTP has expired"
DeleteExpired(r) ==
  /\ NoneDone
  /\ reqs[r].pc = "deleteExpired"
  /\ otp_sessions' = DeleteSession(otp_sessions, reqs[r].email)
  /\ reqs' = [reqs EXCEPT ![r].pc = "done", ![r].result = "expired"]
  /\ lastCode' = Cleared(lastCode, reqs[r].email, "")
  /\ prevCode' = Cleared(prevCode, reqs[r].email, "")
  /\ retries' = Cleared(retries, reqs[r].email, 0)
  /\ UNCHANGED <<users, now, consumed, wsVars>>

\* the match path without its deleteOne
DeleteMatchedKeeps(r) ==
  /\ NoneDone
  /\ reqs[r].pc = "deleteMatched"
  /\ reqs' = [reqs EXCEPT ![r].pc = "findUser"]
  /\ consumed' = [consumed EXCEPT ![reqs[r].email] = reqs[r].otp]
  /\ UNCHANGED <<otp_sessions, users, now, lastCode, prevCode, retries, wsVars>>

\* await deleteOne({email}) on a match
DeleteMatched(r) ==
  /\ NoneDone
  /\ reqs[r].pc = "deleteMatched"
  /\ otp_sessions' = DeleteSession(otp_sessions, reqs[r].email)
  /\ reqs' = [reqs EXCEPT ![r].pc = "findUser"]
  /\ consumed' = [consumed EXCEPT ![reqs[r].email] = reqs[r].otp]
  /\ lastCode' = Cleared(lastCode, reqs[r].email, "")
  /\ prevCode' = Cleared(prevCode, reqs[r].email, "")
  /\ retries' = Cleared(retries, reqs[r].email, 0)
  /\ UNCHANGED <<users, now, wsVars>>

\* let user = await users.findOne({email})
FindUser(r) ==
  /\ NoneDone
  /\ reqs[r].pc = "findUser"
  /\ reqs' = IF \E u \in users : u.email = reqs[r].email
             THEN [reqs EXCEPT ![r].pc = "done", ![r].result = "success"]
             ELSE [reqs EXCEPT ![r].pc = "insertUser"]
  /\ UNCHANGED <<otp_sessions, users, now, lastCode, prevCode, consumed, retries, wsVars>>

\* the insertOne on a collection without the unique index
InsertUserNoIndex(r) ==
  /\ NoneDone
  /\ reqs[r].pc = "insertUser"
  /\ LET session == CHOOSE d \in reqs[r].session : TRUE IN
     /\ users' = users \cup {UserDoc(session.email, session.fullName)}
     /\ reqs' = [reqs EXCEPT ![r].pc = "done", ![r].result = "success"]
  /\ UNCHANGED <<otp_sessions, now, lastCode, prevCode, consumed, retries, wsVars>>

\* await users.insertOne(...): the unique index on users.email rejects a second
\* document for the email, and the handler's catch answers 500
InsertUser(r) ==
  /\ NoneDone
  /\ reqs[r].pc = "insertUser"
  /\ LET session == CHOOSE d \in reqs[r].session : TRUE IN
     IF \E u \in users : u.email = session.email
     THEN /\ reqs' = [reqs EXCEPT ![r].pc = "done", ![r].result = "error"]
          /\ UNCHANGED users
     ELSE /\ users' = users \cup {UserDoc(session.email, session.fullName)}
          /\ reqs' = [reqs EXCEPT ![r].pc = "done", ![r].result = "success"]
  /\ UNCHANGED <<otp_sessions, now, lastCode, prevCode, consumed, retries, wsVars>>

\* the response has gone out; the slot is free again
Respond(r) ==
  /\ reqs[r].pc = "done"
  /\ reqs' = [reqs EXCEPT ![r] = IdleReq]
  /\ UNCHANGED <<otp_sessions, users, now, lastCode, prevCode, consumed, retries, wsVars>>

(* ---------------------- the clock and the TTL index ------------------- *)

\* The handlers read the clock only against a stored expiresAt (and to stamp a
\* new one): time is advanced while a stored session can be seen to expire.
Tick ==
  /\ NoneDone
  /\ \E d \in otp_sessions : d.expiresAt \in Instants
  /\ \E t \in Instants : t > now /\ now' = t
  /\ UNCHANGED <<otp_sessions, users, reqs, lastCode, prevCode, consumed, retries, wsVars>>

\* an index that expires nothing
TtlSweepIdle ==
  /\ NoneDone
  /\ \E d \in otp_sessions : d.expiresAt < now
  /\ UNCHANGED <<otpVars, wsVars>>

\* createIndex({expiresAt: 1}, {expireAfterSeconds: 0}): the store drops a
\* document whose expiresAt is in the past, at a time of its own choosing
TtlSweep ==
  /\ NoneDone
  /\ \E d \in otp_sessions :
       /\ d.expiresAt < now
       /\ otp_sessions' = otp_sessions \ {d}
       /\ lastCode' = Cleared(lastCode, d.email, "")
       /\ prevCode' = Cleared(prevCode, d.email, "")
       /\ retries' = Cleared(retries, d.email, 0)
  /\ UNCHANGED <<users, now, reqs, consumed, wsVars>>

\* the steps of the handlers, for requests in the slots R about the emails E
\* with the full names N
OtpStep(R, E, N) ==
  \/ \E e \in E, n \in N, c \in Codes : RequestOtp(e, n, c) /\ UNCHANGED moreVars
  \/ \E r \in R, e \in E, c \in Codes \cup {""} : VerifyOtp(r, e, c) /\ UNCHANGED moreVars
  \/ \E r \in R : DeleteExpired(r) /\ UNCHANGED moreVars
  \/ \E r \in R : DeleteMatched(r) /\ UNCHANGED moreVars
  \/ \E r \in R : FindUser(r) /\ UNCHANGED moreVars
  \/ \E r \in R : InsertUser(r) /\ UNCHANGED moreVars
  \/ \E r \in R : Respond(r) /\ UNCHANGED moreVars
  \/ Tick /\ UNCHANGED moreVars
  \/ TtlSweep /\ UNCHANGED moreVars

(* ------------------- verify-otp requests racing ---------------------- *)

WinInit == wins = [c \in Codes |-> 0]

\* the step answers request r with success
Succeeds(r) == reqs[r].pc # "done" /\ reqs'[r].pc = "done" /\ reqs'[r].result = "success"

\* the successes counted against the code the request submitted
Counted(r) == IF Succeeds(r) THEN [wins EXCEPT ![reqs[r].otp] = @ + 1] ELSE wins

\* the leftover state
restVars == <<imgVars, obsVars, uiVars, genVars, faultVars>>

\* the handlers with requests in the slots R racing, no code expiring
ProvisionStep(R, E, N) ==
  \/ \E e \in E, n \in N, c \in Codes :
       RequestOtp(e, n, c) /\ wins' = [wins EXCEPT ![c] = 0] /\ UNCHANGED restVars
  \/ \E r \in R, e \in E, c \in Codes : VerifyOtp(r, e, c) /\ UNCHANGED moreVars
  \/ \E r \in R : DeleteMatched(r) /\ UNCHANGED moreVars
  \/ \E r \in R : FindUser(r) /\ wins' = Counted(r) /\ UNCHANGED restVars
  \/ \E r \in R : InsertUser(r) /\ wins' = Counted(r) /\ UNCHANGED restVars
  \/ \E r \in R : Respond(r) /\ UNCHANGED moreVars

(* ------------------- the session store failing ----------------------- *)

FaultInit == fault = [failed |-> {}, put |-> ""]

\* the storage calls a verify-otp request awaits after its findOne
AwaitsStorage(r) == reqs[r].pc \in {"deleteExpired", "deleteMatched", "findUser", "insertUser"}

\* a handler whose catch lets the request go on after a deleteOne that threw
StorageThrowsIgnored(r) ==
  /\ NoneDone
  /\ AwaitsStorage(r)
  /\ reqs' = IF reqs[r].pc = "deleteMatched"
             THEN [reqs EXCEPT ![r].pc = "findUser"]
             ELSE [reqs EXCEPT ![r].pc = "done", ![r].result = "error"]
  /\ fault' = [fault EXCEPT !.failed = @ \cup {r}]
  /\ UNCHANGED <<otp_sessions, users, now, lastCode, prevCode, consumed, retries, wsVars>>

\* the storage call a request awaits throws: the handler's catch answers 500
StorageThrows(r) ==
  /\ NoneDone
  /\ AwaitsStorage(r)
  /\ reqs' = [reqs EXCEPT ![r].pc = "done", ![r].result = "error"]
  /\ fault' = [fault EXCEPT !.failed = @ \cup {r}]
  /\ UNCHANGED <<otp_sessions, users, now, lastCode, prevCode, consumed, retries, wsVars>>

\* the findOne of a valid verify-otp request throws
FindSessionThrows(r, email, otp) ==
  /\ NoneDone
  /\ FreeSlot(r)
  /\ email # "" /\ otp # ""
  /\ reqs' = [reqs EXCEPT ![r] =
                [IdleReq EXCEPT !.pc = "done", !.email = email, !.otp = otp,
                                !.at = now, !.result = "error"]]
  /\ fault' = [fault EXCEPT !.failed = @ \cup {r}]
  /\ UNCHANGED <<otp_sessions, users, now, lastCode, prevCode, consumed, retries, wsVars>>

\* the upsert of a request-otp request throws: 500, and no email is sent
UpsertThrows(email) ==
  /\ NoneDone
  /\ fault' = [fault EXCEPT !.put = "error"]
  /\ UNCHANGED <<otpVars, wsVars>>

\* the handlers over a store whose calls can throw
FaultStep(R, E, N) ==
  \/ \E e \in E, n \in N, c \in Codes :
       RequestOtp(e, n, c) /\ fault' = [fault EXCEPT !.put = "ok"] /\ UNCHANGED otherVars
  \/ \E e \in E : UpsertThrows(e) /\ UNCHANGED otherVars
  \/ \E r \in R, e \in E, c \in Codes \cup {""} : VerifyOtp(r, e, c) /\ UNCHANGED moreVars
  \/ \E r \in R, e \in E, c \in Codes : FindSessionThrows(r, e, c) /\ UNCHANGED otherVars
  \/ \E r \in R : StorageThrows(r) /\ UNCHANGED otherVars
  \/ \E r \in R : DeleteExpired(r) /\ UNCHANGED moreVars
  \/ \E r \in R : DeleteMatched(r) /\ UNCHANGED moreVars
  \/ \E r \in R : FindUser(r) /\ UNCHANGED moreVars
  \/ \E r \in R : InsertUser(r) /\ UNCHANGED moreVars
  \/ \E r \in R :
       Respond(r) /\ fault' = [fault EXCEPT !.failed = @ \ {r}] /\ UNCHANGED otherVars
  \/ Tick /\ UNCHANGED moreVars
  \/ TtlSweep /\ UNCHANGED moreVars

(* ------------------- WebSocket: registry and fan-out ------------------ *)

Conns == 1..MaxConns
\* imageRequest.userId of the requests completed, and of those uploaded
UserIds == {"u1", "u2"}
Uploaders == {"u1"}

\* const client: WSClient = { ws }: userId and role undefined
Unset == [userId |-> "", role |-> ""]

\* client -> server frames: {"type":"register",userId,role}, a JSON frame of
\* another type, and a frame JSON.parse throws on
RegisterFrames ==
  {[type |-> "register", userId |-> "u1", role |-> "user"],
   [type |-> "register", userId |-> "u2", role |-> "user"],
   [type |-> "register", userId |-> "u2", role |-> "admin"]}
OtherFrames == {[type |-> "ping", userId |-> "", role |-> ""],
                [type |-> "unparseable", userId |-> "", role |-> ""]}
\* a register frame is any JSON a client writes: its role need not be a role
ForeignFrames == {[type |-> "register", userId |-> "u1", role |-> "superuser"]}

Connected == [type |-> "connected", userId |-> "", id |-> 0]

WsInit ==
  /\ clients = {}
  /\ client = [c \in Conns |-> Unset]
  /\ ws = [c \in Conns |-> "NONE"]
  /\ evq = [c \in Conns |-> <<>>]
  /\ inbox = [c \in Conns |-> <<>>]
  /\ handled = [c \in Conns |-> 0]
  /\ lastReg = [c \in Conns |-> Unset]
  /\ nsent = 0
  /\ lastDispatch = Connected

\* the connection slot a new socket takes: one with no socket, or whose socket
\* is closed with its events handled
FreeConn(c) == ws[c] = "NONE" /\ \A d \in Conns : d < c => ws[d] # "NONE"

\* a send that jumps the queue
SendFirst(q, frame) == <<frame>> \o q

\* ws.send(frame) on a socket: the frame is queued behind those sent before
Send(q, frame) == Append(q, frame)

\* a connection handler that sends a new socket the latest message again
OnConnectionReplays(c) ==
  /\ FreeConn(c)
  /\ clients' = clients \cup {c}
  /\ client' = [client EXCEPT ![c] = Unset]
  /\ ws' = [ws EXCEPT ![c] = "OPEN"]
  /\ evq' = [evq EXCEPT ![c] = <<>>]
  /\ handled' = [handled EXCEPT ![c] = 0]
  /\ inbox' = [inbox EXCEPT ![c] = IF nsent > 0
                                   THEN Send(Send(<<>>, Connected), lastDispatch)
                                   ELSE Send(<<>>, Connected)]
  /\ lastReg' = [lastReg EXCEPT ![c] = Unset]
  /\ UNCHANGED <<nsent, lastDispatch, otpVars>>

\* a connection handler whose new client starts out as an admin
OnConnectionTagged(c) ==
  /\ FreeConn(c)
  /\ clients' = clients \cup {c}
  /\ client' = [client EXCEPT ![c] = [userId |-> "", role |-> "admin"]]
  /\ ws' = [ws EXCEPT ![c] = "OPEN"]
  /\ evq' = [evq EXCEPT ![c] = <<>>]
  /\ handled' = [handled EXCEPT ![c] = 0]
  /\ inbox' = [inbox EXCEPT ![c] = Send(<<>>, Connected)]
  /\ lastReg' = [lastReg EXCEPT ![c] = Unset]
  /\ UNCHANGED <<nsent, lastDispatch, otpVars>>

\* wss.on('connection'): a new WSClient is added and greeted
OnConnection(c) ==
  /\ FreeConn(c)
  /\ clients' = clients \cup {c}
  /\ client' = [client EXCEPT ![c] = Unset]
  /\ ws' = [ws EXCEPT ![c] = "OPEN"]
  /\ evq' = [evq EXCEPT ![c] = <<>>]
  /\ handled' = [handled EXCEPT ![c] = 0]
  /\ inbox' = [inbox EXCEPT ![c] = Send(<<>>, Connected)]
  /\ lastReg' = [lastReg EXCEPT ![c] = Unset]
  /\ UNCHANGED <<nsent, lastDispatch, otpVars>>

\* a register that keeps what an earlier register set
RegisterOnce(old, frame) ==
  IF old = Unset THEN [userId |-> frame.userId, role |-> frame.role] ELSE old

\* the WSClient after a register frame
Register(old, frame) == [userId |-> frame.userId, role |-> frame.role]

\* a handler that closes the socket of a client whose frame it cannot use
OnMessageStrict(c, frame) ==
  /\ ws[c] = "OPEN"
  /\ client' = IF frame.type = "register"
               THEN [client EXCEPT ![c] = [userId |-> frame.userId, role |-> frame.role]]
               ELSE client
  /\ lastReg' = IF frame.type = "register"
                THEN [lastReg EXCEPT ![c] = [userId |-> frame.userId, role |-> frame.role]]
                ELSE lastReg
  /\ ws' = IF frame.type = "register" THEN ws ELSE [ws EXCEPT ![c] = "CLOSED"]
  /\ evq' = IF frame.type = "register" THEN evq ELSE [evq EXCEPT ![c] = <<"close">>]
  /\ inbox' = IF frame.type = "register" THEN inbox ELSE [inbox EXCEPT ![c] = <<>>]
  /\ UNCHANGED <<clients, handled, nsent, lastDispatch, otpVars>>

\* ws.on('message'): a register frame sets userId and role; a frame of another
\* type is ignored, a parse error is caught and logged
OnMessage(c, frame) ==
  /\ ws[c] = "OPEN"
  /\ client' = IF frame.type = "register"
               THEN [client EXCEPT ![c] = Register(client[c], frame)]
               ELSE client
  /\ lastReg' = IF frame.type = "register"
                THEN [lastReg EXCEPT ![c] = [userId |-> frame.userId, role |-> frame.role]]
                ELSE lastReg
  /\ UNCHANGED <<clients, ws, evq, inbox, handled, nsent, lastDispatch, otpVars>>

\* the socket goes down: its readyState leaves OPEN and it emits 'close', after
\* an 'error' when it failed. What was written to it is delivered or lost: the
\* model stops tracking it.
SocketDown(c, failed) ==
  /\ ws[c] = "OPEN"
  /\ ws' = [ws EXCEPT ![c] = "CLOSED"]
  /\ evq' = [evq EXCEPT ![c] = IF failed THEN <<"error", "close">> ELSE <<"close">>]
  /\ inbox' = [inbox EXCEPT ![c] = <<>>]
  /\ UNCHANGED <<clients, client, handled, lastReg, nsent, lastDispatch, otpVars>>

\* removal from an array by splice(indexOf(client), 1): an absent client has
\* index -1, and the last element goes
RemoveBySplice(set, c) ==
  IF c \in set \/ set = {} THEN set \ {c} ELSE set \ {CHOOSE d \in set : TRUE}

\* clients.delete(client)
Remove(set, c) == set \ {c}

\* a WSClient that has left the set is read by no one: its fields are no
\* longer tracked
Forget(registry, c) ==
  [client EXCEPT ![c] = IF c \in registry THEN @ ELSE Unset]

\* ws.on('close'): the socket's last event
OnClose(c) ==
  /\ evq[c] # <<>> /\ Head(evq[c]) = "close"
  /\ clients' = Remove(clients, c)
  /\ client' = Forget(clients', c)
  /\ lastReg' = [lastReg EXCEPT ![c] = client'[c]]
  /\ evq' = [evq EXCEPT ![c] = Tail(@)]
  /\ ws' = [ws EXCEPT ![c] = "NONE"]
  /\ handled' = [handled EXCEPT ![c] = @ + 1]
  /\ UNCHANGED <<inbox, nsent, lastDispatch, otpVars>>

\* an error handler that only logs
OnErrorLogs(c) ==
  /\ evq[c] # <<>> /\ Head(evq[c]) = "error"
  /\ evq' = [evq EXCEPT ![c] = Tail(@)]
  /\ handled' = [handled EXCEPT ![c] = @ + 1]
  /\ UNCHANGED <<clients, client, lastReg, ws, inbox, nsent, lastDispatch, otpVars>>

\* ws.on('error')
OnError(c) ==
  /\ evq[c] # <<>> /\ Head(evq[c]) = "error"
  /\ clients' = Remove(clients, c)
  /\ client' = Forget(clients', c)
  /\ lastReg' = [lastReg EXCEPT ![c] = client'[c]]
  /\ evq' = [evq EXCEPT ![c] = Tail(@)]
  /\ handled' = [handled EXCEPT ![c] = @ + 1]
  /\ UNCHANGED <<ws, inbox, nsent, lastDispatch, otpVars>>

\* every open client, whatever its role
UploadTargetsAll == {c \in clients : ws[c] = "OPEN"}

\* every admin, whatever the state of its socket
UploadTargetsUnchecked == {c \in clients : client[c].role = "admin"}

\* the clients notifyNewImageUpload sends to
UploadTargets == {c \in clients : ws[c] = "OPEN" /\ client[c].role = "admin"}

\* every open client with the role "user", whoever it is
EditedTargetsByRole(userId) == {c \in clients : ws[c] = "OPEN" /\ client[c].role = "user"}

\* the clients notifyImageEdited sends to
EditedTargets(userId) == {c \in clients : ws[c] = "OPEN" /\ client[c].userId = userId}

\* clients.forEach(client => { if (...) client.ws.send(message) })
Dispatch(message, targets) ==
  /\ nsent < MaxEvents
  /\ inbox' = [c \in Conns |->
                 IF c \in targets THEN Send(inbox[c], message) ELSE inbox[c]]
  /\ nsent' = nsent + 1
  /\ lastDispatch' = message
  /\ UNCHANGED <<clients, client, ws, evq, handled, lastReg, otpVars>>

NotifyNewImageUpload(userId) ==
  Dispatch([type |-> "new_image_upload", userId |-> userId, id |-> nsent + 1],
           UploadTargets)

NotifyImageEdited(userId) ==
  Dispatch([type |-> "image_edited", userId |-> userId, id |-> nsent + 1],
           EditedTargets(userId))

\* the steps of the registry and the dispatcher, for the client frames F
WsStep(F) ==
  \/ \E c \in Conns : OnConnection(c) /\ UNCHANGED moreVars
  \/ \E c \in Conns, frame \in F : OnMessage(c, frame) /\ UNCHANGED moreVars
  \/ \E c \in Conns, failed \in BOOLEAN : SocketDown(c, failed) /\ UNCHANGED moreVars
  \/ \E c \in Conns : OnClose(c) /\ UNCHANGED moreVars
  \/ \E c \in Conns : OnError(c) /\ UNCHANGED moreVars
  \/ \E u \in Uploaders : NotifyNewImageUpload(u) /\ UNCHANGED moreVars
  \/ \E u \in UserIds : NotifyImageEdited(u) /\ UNCHANGED moreVars

(* ------------- the upload routes that call the dispatcher ------------- *)

\* the _id values insertOne hands out, and the :requestId values an admin sends:
\* one of them, or 0 for a string new ObjectId() throws on
DocIds == 1..MaxEvents
RequestIds == 0..MaxEvents

ImageDoc(id, userId, status) == [id |-> id, userId |-> userId, status |-> status]

IdleRoute == [pc |-> "idle", userId |-> "", id |-> 0, found |-> {}, result |-> "", sent |-> 0]

ImgInit ==
  /\ image_requests = {}
  /\ up = IdleRoute
  /\ ed = IdleRoute
  /\ dropped = {}

\* a route handler suspended at its await
Awaiting(route) == route.pc \in {"store", "stored", "update", "updated"}

\* the requests accepted so far make no more than MaxEvents notify calls
Admits ==
  nsent + (IF Awaiting(up) THEN 1 ELSE 0) + (IF Awaiting(ed) THEN 1 ELSE 0) < MaxEvents

\* client.ws.send on a socket that is not open does not write: the ws library
\* raises 'WebSocket is not open', which nothing in the notify functions catches
SendThrows(targets) == \E c \in targets : ws[c] # "OPEN"

\* what the route answers once the notify call is over: the call returned, or
\* it threw into the route's catch
AfterNotify(targets) == IF SendThrows(targets) THEN "error" ELSE "ok"

\* POST /api/images/upload: the checks before the await
UploadArrive(file, userId) ==
  /\ up.pc \in {"idle", "done"}
  /\ Admits
  /\ up' = IF ~file THEN [IdleRoute EXCEPT !.pc = "done", !.result = "nofile"]
           ELSE IF userId = "" THEN [IdleRoute EXCEPT !.pc = "done", !.result = "nouser"]
           ELSE [IdleRoute EXCEPT !.pc = "store", !.userId = userId]
  /\ UNCHANGED <<image_requests, ed, dropped, wsVars, otpVars>>

\* a createImageRequest that hands back a document it did not store
UploadStoreUnchecked(ok) ==
  /\ up.pc = "store"
  /\ LET id == Cardinality(image_requests) + 1 IN
     /\ image_requests' =
          IF ok THEN image_requests \cup {ImageDoc(id, up.userId, "pending")}
          ELSE image_requests
     /\ up' = [up EXCEPT !.pc = "stored", !.id = id]
  /\ UNCHANGED <<ed, dropped, wsVars, otpVars>>

\* await storage.createImageRequest(...): insertOne stores the document, or
\* throws and the route's catch answers 500
UploadStore(ok) ==
  /\ up.pc = "store"
  /\ LET id == Cardinality(image_requests) + 1 IN
     IF ok
     THEN /\ image_requests' = image_requests \cup {ImageDoc(id, up.userId, "pending")}
          /\ up' = [up EXCEPT !.pc = "stored", !.id = id]
     ELSE /\ up' = [up EXCEPT !.pc = "done", !.result = "error"]
          /\ UNCHANGED image_requests
  /\ UNCHANGED <<ed, dropped, wsVars, otpVars>>

\* notifyNewImageUpload(...); res.json(...)
UploadNotify ==
  /\ up.pc = "stored"
  /\ NotifyNewImageUpload(up.userId)
  /\ up' = [up EXCEPT !.pc = "done", !.result = AfterNotify(UploadTargets), !.sent = 1]
  /\ UNCHANGED <<image_requests, ed, dropped>>

\* POST /api/admin/upload-edited/:requestId: the check before the await
EditArrive(file, requestId) ==
  /\ ed.pc \in {"idle", "done"}
  /\ Admits
  /\ ed' = IF ~file THEN [IdleRoute EXCEPT !.pc = "done", !.result = "nofile"]
           ELSE [IdleRoute EXCEPT !.pc = "update", !.id = requestId]
  /\ UNCHANGED <<image_requests, up, dropped, wsVars, otpVars>>

\* await storage.updateImageRequest(requestId, {..., status: 'completed'}):
\* findOneAndUpdate returns the updated document or null; new ObjectId(id)
\* or the driver throws and the route's catch answers 500
EditUpdate(ok) ==
  /\ ed.pc = "update"
  /\ LET hit == {d \in image_requests : d.id = ed.id} IN
     IF ok /\ ed.id \in DocIds
     THEN /\ image_requests' =
               (image_requests \ hit) \cup {[d EXCEPT !.status = "completed"] : d \in hit}
          /\ ed' = [ed EXCEPT !.pc = "updated",
                              !.found = {[d EXCEPT !.status = "completed"] : d \in hit}]
     ELSE /\ ed' = [ed EXCEPT !.pc = "done", !.result = "error"]
          /\ UNCHANGED image_requests
  /\ UNCHANGED <<up, dropped, wsVars, otpVars>>

\* if (!updatedRequest) return 404; notifyImageEdited(...); res.json(...)
EditNotify ==
  /\ ed.pc = "updated"
  /\ IF ed.found = {}
     THEN /\ ed' = [ed EXCEPT !.pc = "done", !.result = "notfound"]
          /\ UNCHANGED <<wsVars, otpVars>>
     ELSE LET userId == (CHOOSE d \in ed.found : TRUE).userId IN
          /\ NotifyImageEdited(userId)
          /\ ed' = [ed EXCEPT !.pc = "done", !.result = AfterNotify(EditedTargets(userId)),
                              !.sent = 1]
  /\ UNCHANGED <<image_requests, up, dropped>>

\* the socket goes down; when it failed, the message last written to it is lost
Down(c, failed) ==
  /\ SocketDown(c, failed)
  /\ dropped' = IF failed /\ Len(inbox[c]) > 1
                THEN dropped \cup {inbox[c][Len(inbox[c])].id}
                ELSE dropped
  /\ UNCHANGED <<image_requests, up, ed>>

\* the steps of the routes and of the registry under them, for the connections C
\* and the client frames F
ApiStep(C, F) ==
  \/ \E file \in BOOLEAN, u \in Uploaders \cup {""} : UploadArrive(file, u) /\ UNCHANGED <<obsVars, uiVars, faultVars, genVars, winVars>>
  \/ \E ok \in BOOLEAN : UploadStore(ok) /\ UNCHANGED <<obsVars, uiVars, faultVars, genVars, winVars>>
  \/ UploadNotify /\ UNCHANGED <<obsVars, uiVars, faultVars, genVars, winVars>>
  \/ \E file \in BOOLEAN, id \in RequestIds : EditArrive(file, id) /\ UNCHANGED <<obsVars, uiVars, faultVars, genVars, winVars>>
  \/ \E ok \in BOOLEAN : EditUpdate(ok) /\ UNCHANGED <<obsVars, uiVars, faultVars, genVars, winVars>>
  \/ EditNotify /\ UNCHANGED <<obsVars, uiVars, faultVars, genVars, winVars>>
  \/ \E c \in C : OnConnection(c) /\ UNCHANGED moreVars
  \/ \E c \in C, frame \in F : OnMessage(c, frame) /\ UNCHANGED moreVars
  \/ \E c \in C, failed \in BOOLEAN : Down(c, failed) /\ UNCHANGED <<obsVars, uiVars, faultVars, genVars, winVars>>
  \/ \E c \in C : OnClose(c) /\ UNCHANGED moreVars
  \/ \E c \in C : OnError(c) /\ UNCHANGED moreVars

(* ----------------- the registry, its frames observed ------------------ *)

ObsInit == lastFrame = [c \in Conns |-> ""]

\* the steps of the registry and the dispatcher for the connections C and the
\* client frames F, with the type of each connection's latest frame kept while
\* its socket is up
MsgStep(C, F) ==
  \/ \E c \in C : OnConnection(c) /\ UNCHANGED moreVars
  \/ \E c \in C, frame \in F :
       /\ OnMessage(c, frame)
       /\ lastFrame' = [lastFrame EXCEPT ![c] = frame.type]
       /\ UNCHANGED <<imgVars, uiVars, faultVars, genVars, winVars>>
  \/ \E c \in C, failed \in BOOLEAN :
       /\ SocketDown(c, failed)
       /\ lastFrame' = [lastFrame EXCEPT ![c] = ""]
       /\ UNCHANGED <<imgVars, uiVars, faultVars, genVars, winVars>>
  \/ \E c \in C : OnClose(c) /\ UNCHANGED moreVars
  \/ \E c \in C : OnError(c) /\ UNCHANGED moreVars
  \/ \E u \in Uploaders : NotifyNewImageUpload(u) /\ UNCHANGED moreVars
  \/ \E u \in UserIds : NotifyImageEdited(u) /\ UNCHANGED moreVars

(* ---------------------- client presence agent ------------------------ *)

\* the dashboards that hold an agent
Agents == {"user-dashboard", "admin-dashboard"}

\* an agent as its component mounts: it connects at once. timers counts the
\* reconnect attempts scheduled and not yet run or cancelled, transports the
\* connections open or connecting, events the events its latest transport has
\* emitted and the agent has not handled yet
\* identity is the user id the agent knows ("" while it knows none), announced
\* the identity of the register frame sent on the current connection ("" when
\* none was sent), reconnected whether a reconnect attempt has run
AgentInit ==
  agent = [a \in Agents |->
             [state |-> "Connecting", mounted |-> TRUE, timers |-> 0,
              transports |-> 1, events |-> <<>>,
              identity |-> "", announced |-> "", reconnected |-> FALSE]]

OtherVarsUnchanged ==
  UNCHANGED <<otpVars, wsVars, imgVars, obsVars, clientVars, dashVars, faultVars, genVars, winVars>>

\* an agent that announces itself on its first connection only
AgentOpenOnce(a) ==
  /\ agent[a].state = "Connecting" /\ agent[a].transports > 0
  /\ agent' = [agent EXCEPT ![a].state = "Connected",
                            ![a].announced = IF agent[a].reconnected THEN "" ELSE agent[a].identity]
  /\ OtherVarsUnchanged

\* the transport opens: the agent is Connected and announces the identity it
\* knows, if any
AgentOpen(a) ==
  /\ agent[a].state = "Connecting" /\ agent[a].transports > 0
  /\ agent' = [agent EXCEPT ![a].state = "Connected",
                            ![a].announced = agent[a].identity]
  /\ OtherVarsUnchanged

\* the identity becomes known (the user of the auth context is set): a
\* Connected agent announces it at that point
IdentityKnown(a, id) ==
  /\ agent[a].mounted /\ agent[a].identity = ""
  /\ agent' = [agent EXCEPT ![a].identity = id,
                            ![a].announced = IF agent[a].state = "Connected" THEN id ELSE @]
  /\ OtherVarsUnchanged

\* the transport is lost: it emits close, after error when it failed
TransportLost(a, failed) ==
  /\ agent[a].transports > 0
  /\ agent' = [agent EXCEPT ![a].transports = @ - 1,
                            ![a].announced = "",
                            ![a].events = IF failed THEN <<"error", "close">> ELSE <<"close">>]
  /\ OtherVarsUnchanged

\* a handler that schedules a reconnect for every event it gets
OnTransportEventAlways(a) ==
  /\ agent[a].events # <<>>
  /\ agent' = [agent EXCEPT ![a].events = Tail(@),
                            ![a].state = "Disconnected",
                            ![a].timers = @ + 1]
  /\ OtherVarsUnchanged

\* the close or error handler: the agent becomes Disconnected and schedules one
\* reconnect attempt; an agent already Disconnected, or torn down, does nothing
OnTransportEvent(a) ==
  /\ agent[a].events # <<>>
  /\ agent' = IF agent[a].mounted /\ agent[a].state # "Disconnected"
              THEN [agent EXCEPT ![a].events = Tail(@),
                                 ![a].state = "Disconnected",
                                 ![a].timers = @ + 1]
              ELSE [agent EXCEPT ![a].events = Tail(@)]
  /\ OtherVarsUnchanged

\* the backoff interval has passed, the lost transport's events long handled:
\* the reconnect attempt runs
Reconnect(a) ==
  /\ agent[a].timers > 0 /\ agent[a].events = <<>>
  /\ agent' = [agent EXCEPT ![a].timers = @ - 1,
                            ![a].state = "Connecting",
                            ![a].reconnected = TRUE,
                            ![a].transports = @ + 1]
  /\ OtherVarsUnchanged

\* unmount or logout: the pending attempt is cancelled and the transport closed
Teardown(a) ==
  /\ agent[a].mounted
  /\ agent' = [agent EXCEPT ![a].mounted = FALSE,
                            ![a].state = "Disconnected",
                            ![a].timers = 0,
                            ![a].transports = 0,
                            ![a].announced = "",
                            ![a].events = IF agent[a].transports > 0 THEN <<"close">> ELSE @]
  /\ OtherVarsUnchanged

AgentStep ==
  \/ \E a \in Agents : AgentOpen(a)
  \/ \E a \in Agents, id \in UserIds : IdentityKnown(a, id)
  \/ \E a \in Agents, failed \in BOOLEAN : TransportLost(a, failed)
  \/ \E a \in Agents : OnTransportEvent(a)
  \/ \E a \in Agents : Reconnect(a)
  \/ \E a \in Agents : Teardown(a)

(* ------------------ the browser: the admin dashboard ------------------ *)

\* useState<ImageRequest[]>([]); no fetch under way, no message delivered
DashInit ==
  dash = [requests |-> <<>>, fetch |-> "idle", ok |-> TRUE, snapshot |-> <<>>,
          wsq |-> <<>>, applied |-> {}]

\* what the dashboard keeps of a request: its id and its status
Entry(id, status) == [id |-> id, status |-> status]

\* the ids of a list of entries
Ids(list) == {list[i].id : i \in 1..Len(list)}

\* find({}).sort({ uploadedAt: -1 }).toArray(): the stored requests, the newest
\* (the highest id) first
RECURSIVE NewestFirst(_)
NewestFirst(docs) ==
  IF docs = {} THEN <<>>
  ELSE LET d == CHOOSE x \in docs : \A y \in docs : y.id <= x.id
       IN <<Entry(d.id, d.status)>> \o NewestFirst(docs \ {d})

\* everything but the request store and the dashboard
DashOthersUnchanged ==
  UNCHANGED <<up, ed, dropped, otpVars, wsVars, obsVars, agentVars, clientVars,
              faultVars, genVars, winVars>>

\* POST /api/images/upload: createImageRequest stores the request, then
\* notifyNewImageUpload sends new_image_upload to every open admin socket; open
\* says whether this dashboard's socket is one of them
DashUpload(open) ==
  /\ Cardinality(image_requests) < MaxUploads
  /\ LET id == Cardinality(image_requests) + 1 IN
     /\ image_requests' = image_requests \cup {ImageDoc(id, "u1", "pending")}
     /\ dash' = [dash EXCEPT !.wsq =
                   IF open THEN Append(@, [type |-> "new_image_upload", id |-> id])
                   ELSE @]
  /\ DashOthersUnchanged

\* POST /api/admin/upload-edited/:requestId: updateImageRequest marks the
\* request completed, then notifyImageEdited sends image_edited to the sockets
\* registered under the request's userId; mine says whether this dashboard's
\* socket is one of them. A request is edited once here (that caps the queue).
DashEdit(id, mine) ==
  /\ \E d \in image_requests : d.id = id /\ d.status = "pending"
  /\ image_requests' =
       {IF d.id = id THEN [d EXCEPT !.status = "completed"] ELSE d : d \in image_requests}
  /\ dash' = [dash EXCEPT !.wsq =
                IF mine THEN Append(@, [type |-> "image_edited", id |-> id]) ELSE @]
  /\ DashOthersUnchanged

\* fetchRequests up to its await: fetch('/api/admin/requests') is sent
FetchRequests ==
  /\ dash.fetch = "idle"
  /\ dash' = [dash EXCEPT !.fetch = "sent"]
  /\ UNCHANGED image_requests
  /\ DashOthersUnchanged

\* GET /api/admin/requests: the server reads the store and answers with what it
\* read, or with 500 when the read throws
ListRequests(ok) ==
  /\ dash.fetch = "sent"
  /\ dash' = [dash EXCEPT !.fetch = "responded", !.ok = ok,
                          !.snapshot = IF ok THEN NewestFirst(image_requests) ELSE <<>>]
  /\ UNCHANGED image_requests
  /\ DashOthersUnchanged

\* fetchRequests after its await: setRequests(data.requests || []) when
\* response.ok, a toast otherwise
FetchResponse ==
  /\ dash.fetch = "responded"
  /\ dash' = [dash EXCEPT !.fetch = "idle", !.snapshot = <<>>, !.ok = TRUE,
                          !.requests = IF dash.ok THEN dash.snapshot ELSE @]
  /\ UNCHANGED image_requests
  /\ DashOthersUnchanged

\* handleWebSocketMessage, new_image_upload: prev when an entry has the id,
\* prev with the new pending entry appended otherwise
handleNewUpload(prev, id) ==
  IF id \in Ids(prev) THEN prev ELSE Append(prev, Entry(id, "pending"))

\* handleWebSocketMessage, image_edited: the entry with the id becomes
\* completed, every other entry is kept
handleEdited(prev, id) ==
  [i \in 1..Len(prev) |->
     IF prev[i].id = id THEN [prev[i] EXCEPT !.status = "completed"] ELSE prev[i]]

\* the socket delivers its next message to handleWebSocketMessage
HandleWebSocketMessage ==
  /\ dash.wsq # <<>>
  /\ LET message == Head(dash.wsq) IN
     dash' = [dash EXCEPT
                !.wsq = Tail(@),
                !.requests = IF message.type = "new_image_upload"
                             THEN handleNewUpload(@, message.id)
                             ELSE handleEdited(@, message.id),
                !.applied = IF message.type = "new_image_upload"
                            THEN @ \cup {message.id} ELSE @]
  /\ UNCHANGED image_requests
  /\ DashOthersUnchanged

\* the dashboard, the server routes it talks to and its socket
DashStep ==
  \/ \E open \in BOOLEAN : DashUpload(open)
  \/ \E id \in 1..MaxUploads, mine \in BOOLEAN : DashEdit(id, mine)
  \/ FetchRequests
  \/ \E ok \in BOOLEAN : ListRequests(ok)
  \/ FetchResponse
  \/ HandleWebSocketMessage

(* ------------------ the browser: AuthProvider and Router -------------- *)

\* useState<User | null>(null)
NoUser == [email |-> "", role |-> ""]

\* data.user of a verify-otp response
ServerUser(email) ==
  [email |-> email, role |-> IF email = AdminEmail THEN "admin" ELSE "user"]

\* the paths of the Router's routes, and one it has no route for
AuthPaths == {"/auth", "/auth/client", "/auth/admin"}
Paths == AuthPaths \cup {"/", "/admin", "/nowhere"}

\* the fetch calls awaiting their response; stale is history: a logout has run
\* since the call was made
CallIds == 1..MaxCalls
IdleCall == [kind |-> "idle", email |-> "", stale |-> FALSE]
FreeCall(k) ==
  auth.calls[k].kind = "idle" /\ \A j \in CallIds : j < k => auth.calls[j].kind # "idle"

AuthInit ==
  auth = [user |-> NoUser, isLoading |-> FALSE, pendingLogin |-> "",
          location |-> "/", calls |-> [k \in CallIds |-> IdleCall]]

\* what the Router renders
Page ==
  IF auth.location \in AuthPaths THEN "AuthPage"
  ELSE IF auth.location = "/"
       THEN IF auth.isLoading THEN "null"
            ELSE IF auth.user = NoUser THEN "Redirect" ELSE "UserDashboard"
  ELSE IF auth.location = "/admin" THEN "AdminDashboard"
  ELSE "NotFound"

\* login(email, fullName): POST /api/auth/request-otp is sent
Login(k, email) ==
  /\ FreeCall(k)
  /\ auth' = [auth EXCEPT !.isLoading = TRUE,
                          !.calls[k] = [kind |-> "login", email |-> email, stale |-> FALSE]]
  /\ UNCHANGED <<otpVars, wsVars, imgVars, obsVars, agentVars, dashVars, faultVars, genVars, winVars>>

\* the response of request-otp
LoginResponse(k, ok) ==
  /\ auth.calls[k].kind = "login"
  /\ auth' = [auth EXCEPT !.pendingLogin = IF ok THEN auth.calls[k].email ELSE @,
                          !.isLoading = FALSE,
                          !.calls[k] = IdleCall]
  /\ UNCHANGED <<otpVars, wsVars, imgVars, obsVars, agentVars, dashVars, faultVars, genVars, winVars>>

\* verifyOtp(otp): false at once with no pending login, else POST
\* /api/auth/verify-otp is sent
VerifyOtpCall(k) ==
  /\ FreeCall(k)
  /\ auth' = IF auth.pendingLogin = ""
             THEN auth
             ELSE [auth EXCEPT !.isLoading = TRUE,
                               !.calls[k] = [kind |-> "verify", email |-> auth.pendingLogin,
                                             stale |-> FALSE]]
  /\ UNCHANGED <<otpVars, wsVars, imgVars, obsVars, agentVars, dashVars, faultVars, genVars, winVars>>

\* the response of verify-otp: on success the user is set and the auth page
\* goes to the dashboard
VerifyResponse(k, ok) ==
  /\ auth.calls[k].kind = "verify"
  /\ auth' = [auth EXCEPT !.user = IF ok THEN ServerUser(auth.calls[k].email) ELSE @,
                          !.pendingLogin = IF ok THEN "" ELSE @,
                          !.isLoading = FALSE,
                          !.location = IF ok THEN "/" ELSE @,
                          !.calls[k] = IdleCall]
  /\ UNCHANGED <<otpVars, wsVars, imgVars, obsVars, agentVars, dashVars, faultVars, genVars, winVars>>

\* logout()
Logout ==
  /\ auth' = [auth EXCEPT !.user = NoUser,
                          !.pendingLogin = "",
                          !.calls = [k \in CallIds |->
                                       IF auth.calls[k].kind = "verify"
                                       THEN [auth.calls[k] EXCEPT !.stale = TRUE]
                                       ELSE auth.calls[k]]]
  /\ UNCHANGED <<otpVars, wsVars, imgVars, obsVars, agentVars, dashVars, faultVars, genVars, winVars>>

\* the user follows a link or the history to a path
Navigate(path) ==
  /\ auth.location # path
  /\ auth' = [auth EXCEPT !.location = path]
  /\ UNCHANGED <<otpVars, wsVars, imgVars, obsVars, agentVars, dashVars, faultVars, genVars, winVars>>

\* <Redirect to="/auth" />
RedirectToAuth ==
  /\ Page = "Redirect"
  /\ auth' = [auth EXCEPT !.location = "/auth"]
  /\ UNCHANGED <<otpVars, wsVars, imgVars, obsVars, agentVars, dashVars, faultVars, genVars, winVars>>

AuthStep ==
  \/ \E k \in CallIds, email \in Emails : Login(k, email)
  \/ \E k \in CallIds, ok \in BOOLEAN : LoginResponse(k, ok)
  \/ \E k \in CallIds : VerifyOtpCall(k)
  \/ \E k \in CallIds, ok \in BOOLEAN : VerifyResponse(k, ok)
  \/ Logout
  \/ \E path \in Paths : Navigate(path)
  \/ RedirectToAuth

(* --------------------------- specifications --------------------------- *)

Init == OtpInit /\ WsInit /\ ImgInit /\ ObsInit /\ AgentInit /\ AuthInit /\ FaultInit
        /\ GenInit /\ DashInit /\ WinInit

\* every identity, one verify-otp request at a time
OtpNext == OtpStep({1}, Emails, {"Ann"})

OtpSpec == Init /\ [][OtpNext]_vars

\* one identity, verify-otp requests racing
RaceNext == OtpStep(Reqs, {"a@x.com"}, FullNames)

RaceSpec == Init /\ [][RaceNext]_vars

\* one identity, one request at a time, the store's calls throwing
FaultNext == FaultStep({1}, {"a@x.com"}, {"Ann"})

FaultSpec == Init /\ [][FaultNext]_vars

\* one identity, one request at a time; the clock advances and the TTL monitor
\* runs whatever the handlers do, and a response computed goes out
ExpiryNext == OtpStep({1}, {"a@x.com"}, {"Ann"})

ExpirySpec ==
  /\ Init /\ [][ExpiryNext]_vars
  /\ SF_vars(Tick /\ UNCHANGED moreVars)
  /\ SF_vars(TtlSweep /\ UNCHANGED moreVars)
  /\ \A r \in {1} : WF_vars(Respond(r) /\ UNCHANGED moreVars)

\* calls of generateOTP
GenNext == \E k \in Randoms : Generate(k)

GenSpec == Init /\ [][GenNext]_vars

\* one identity, two verify-otp requests racing, sessions issued under either name
ProvisionNext == ProvisionStep({1, 2}, {"a@x.com"}, FullNames)

ProvisionSpec == Init /\ [][ProvisionNext]_vars

\* one identity, two verify-otp requests racing each other and the code requests
DuelNext == OtpStep({1, 2}, {"a@x.com"}, FullNames)

DuelSpec == Init /\ [][DuelNext]_vars

WsNext == WsStep(RegisterFrames \cup OtherFrames)

WsSpec == Init /\ [][WsNext]_vars

\* two connections and every kind of client frame
MsgNext == MsgStep({1, 2}, RegisterFrames \cup ForeignFrames \cup OtherFrames)

MsgSpec == Init /\ [][MsgNext]_vars

\* the admin dashboard beside the upload routes
DashNext == DashStep

DashSpec == Init /\ [][DashNext]_vars

\* the browser's auth state and routes
AuthNext == AuthStep

AuthSpec == Init /\ [][AuthNext]_vars

\* the presence agents of the two dashboards
AgentNext == AgentStep

AgentSpec == Init /\ [][AgentNext]_vars

\* the upload routes over the registry
\* two connections, of the uploader and of admins
ApiNext ==
  ApiStep({1, 2}, {f \in RegisterFrames : (f.role = "admin") = (f.userId \notin Uploaders)})

ApiSpec == Init /\ [][ApiNext]_vars

\* the registry alone: connections come, register and go
LifeNext ==
  \/ \E c \in Conns : OnConnection(c) /\ UNCHANGED moreVars
  \/ \E c \in Conns, frame \in RegisterFrames \cup OtherFrames : OnMessage(c, frame) /\ UNCHANGED moreVars
  \/ \E c \in Conns, failed \in BOOLEAN : SocketDown(c, failed) /\ UNCHANGED moreVars
  \/ \E c \in Conns : OnClose(c) /\ UNCHANGED moreVars
  \/ \E c \in Conns : OnError(c) /\ UNCHANGED moreVars

\* emit() runs a socket's handlers: an emitted event is handled
LifeSpec ==
  /\ Init /\ [][LifeNext]_vars
  /\ \A c \in Conns : /\ WF_vars(OnClose(c) /\ UNCHANGED moreVars)
                      /\ WF_vars(OnError(c) /\ UNCHANGED moreVars)

(* ------------------------- OTP: the claims ---------------------------- *)

Done(r) == reqs[r].pc = "done"

\* the request read a session (findOne returned a document)
Read(r) == reqs[r].pc # "idle" /\ reqs[r].session # {}

SessionRead(r) == CHOOSE d \in reqs[r].session : TRUE

OnMatchPath(r) ==
  \/ reqs[r].pc \in {"deleteMatched", "findUser", "insertUser"}
  \/ Done(r) /\ reqs[r].result \in {"success", "error"}

\* C1: every identity has at most one pending session and it holds the code of
\* the latest code request; a verify gets onto the match path only with the
\* code of the latest request (never with the one that request replaced), and a
\* verify with the latest code, read while its session is pending and not past
\* its expiry, succeeds.
C1_SingleActiveSession ==
  /\ \A e \in Emails :
       /\ Cardinality(SessionsOf(otp_sessions, e)) <= 1
       /\ \A d \in SessionsOf(otp_sessions, e) : d.otp = lastCode[e]
  /\ \A r \in Reqs :
       /\ OnMatchPath(r) => reqs[r].sub = "latest"
       /\ (Done(r) /\ reqs[r].sub = "previous") => reqs[r].result # "success"
       /\ (Done(r) /\ reqs[r].sub = "latest" /\ Read(r) /\ reqs[r].solo
             /\ reqs[r].at <= SessionRead(r).expiresAt)
           => reqs[r].result = "success"

\* a verify with the replaced code, sent before any code could have expired, has
\* been refused while the replacing code's session is pending
C1_Witness ==
  \E r \in Reqs :
    /\ Done(r) /\ reqs[r].sub = "previous" /\ reqs[r].result = "mismatch"
    /\ reqs[r].at < OtpTtlMs
    /\ \E d \in otp_sessions : d.email = reqs[r].email /\ d.otp # reqs[r].otp

\* C2: a verify that submits the code a matching verify has already consumed,
\* with no code request since, is answered "no session", whatever the time.
C2_SingleUse ==
  \A r \in Reqs :
    (reqs[r].pc # "idle" /\ reqs[r].replay)
      => (Done(r) /\ reqs[r].result = "nosession" /\ reqs[r].session = {})

C2_Witness ==
  \E r \in Reqs :
    /\ Done(r) /\ reqs[r].replay /\ reqs[r].result = "nosession"
    /\ \E u \in users : u.email = reqs[r].email

\* C3: a verify that reads a session past its expiry (now > expiresAt) goes on
\* to delete and answers "expired" for every submitted code, never success or
\* mismatch, and the identity has no session when it answers.
C3_ExpiryFirst ==
  \A r \in Reqs :
    (Read(r) /\ reqs[r].at > SessionRead(r).expiresAt)
      => \/ reqs[r].pc = "deleteExpired"
         \/ /\ Done(r) /\ reqs[r].result = "expired"
            /\ SessionsOf(otp_sessions, reqs[r].email) = {}

\* an expired answer to the matching code
C3_Witness ==
  \E r \in Reqs :
    /\ Done(r) /\ reqs[r].result = "expired"
    /\ SessionRead(r).otp = reqs[r].otp
    /\ reqs[r].at > SessionRead(r).expiresAt

\* the step is request r being answered "Invalid OTP"
MismatchStep(r) ==
  reqs[r].pc = "idle" /\ reqs'[r].pc = "done" /\ reqs'[r].result = "mismatch"

\* C4: a wrong code on a session not past its expiry is answered "mismatch" and
\* the step changes no session and no user; after any number of mismatches the
\* right code, read no later than expiresAt, still succeeds.
C4_MismatchKeepsSession ==
  /\ [](\A r \in Reqs :
          (Done(r) /\ Read(r) /\ reqs[r].at <= SessionRead(r).expiresAt
             /\ reqs[r].otp # SessionRead(r).otp)
            => (reqs[r].result = "mismatch" /\ reqs[r].session \subseteq otp_sessions))
  /\ [](\A r \in Reqs :
          (Done(r) /\ Read(r) /\ reqs[r].at <= SessionRead(r).expiresAt
             /\ reqs[r].otp = SessionRead(r).otp /\ reqs[r].solo)
            => reqs[r].result = "success")
  /\ [][\A r \in Reqs :
          MismatchStep(r) => /\ otp_sessions' = otp_sessions
                             /\ users' = users
                             /\ reqs'[r].session \subseteq otp_sessions]_vars

\* a success on the very expiry instant of a code that was mistyped MaxRetries times
C4_Witness ==
  \E r \in Reqs :
    /\ Done(r) /\ reqs[r].result = "success" /\ reqs[r].tries = MaxRetries
    /\ reqs[r].at = SessionRead(r).expiresAt

\* the step stores a new session document for the email
PutStep(e) == \E d \in otp_sessions' : d.email = e /\ d \notin otp_sessions

\* the step is request r reading the store (findOne)
ReadStep(r) == reqs[r].pc = "idle" /\ reqs'[r].pc # "idle"

\* the step is a deleteOne of request r
DeleteStep(r) ==
  reqs[r].pc \in {"deleteExpired", "deleteMatched"} /\ reqs'[r].pc # reqs[r].pc

\* C12: a code request over a pending session leaves exactly one session, the
\* new one, in the same step; an identity goes from session to no session only
\* by a verify's deleteOne or by the TTL index on a session past its expiry,
\* never by a code request; and a verify reads what the store holds: the
\* no-session answer is given only when the store has no session for the
\* identity, and a session read is one the store held at the read.
C12_AtomicReplace ==
  /\ [][\A e \in Emails :
          (PutStep(e) /\ SessionsOf(otp_sessions, e) # {})
            => /\ Cardinality(SessionsOf(otp_sessions', e)) = 1
               /\ \A d \in SessionsOf(otp_sessions', e) : d.otp = lastCode'[e]]_vars
  /\ [][\A e \in Emails :
          (SessionsOf(otp_sessions, e) # {} /\ SessionsOf(otp_sessions', e) = {})
            => \/ \E r \in Reqs : DeleteStep(r) /\ reqs[r].email = e
               \/ \A d \in SessionsOf(otp_sessions, e) : d.expiresAt < now]_vars
  /\ [][\A r \in Reqs :
          ReadStep(r) =>
            /\ reqs'[r].session \subseteq SessionsOf(otp_sessions, reqs'[r].email)
            /\ reqs'[r].result = "nosession"
                  => SessionsOf(otp_sessions, reqs'[r].email) = {}
            /\ (reqs'[r].email # "" /\ reqs'[r].otp # ""
                   /\ SessionsOf(otp_sessions, reqs'[r].email) # {})
                  => reqs'[r].session # {}]_vars

\* a verify read the old session and, while it runs, a code request has put the
\* new one in its place
C12_Witness ==
  \E r \in Reqs :
    /\ reqs[r].pc = "deleteMatched"
    /\ SessionRead(r) \notin otp_sessions
    /\ \E d \in otp_sessions : d.email = reqs[r].email /\ d.otp # SessionRead(r).otp

\* request r passed validation and findOne returned null
ReadNothing(r) ==
  reqs[r].pc # "idle" /\ reqs[r].email # "" /\ reqs[r].otp # "" /\ reqs[r].session = {}

\* C14: a verify for an identity with no pending session is answered "no
\* session" at once, for every code and at every time, and neither its read nor
\* its answer changes any session or any user.
C14_NoSession ==
  /\ [](\A r \in Reqs : ReadNothing(r) => (Done(r) /\ reqs[r].result = "nosession"))
  /\ [][\A r \in Reqs :
          (ReadStep(r) /\ reqs'[r].email # "" /\ reqs'[r].otp # ""
             /\ SessionsOf(otp_sessions, reqs'[r].email) = {})
            => (reqs'[r].result = "nosession"
                  /\ otp_sessions' = otp_sessions /\ users' = users)]_vars
  /\ [][\A r \in Reqs :
          (ReadNothing(r) /\ reqs'[r] # reqs[r])
            => (reqs'[r].pc = "idle" /\ otp_sessions' = otp_sessions /\ users' = users)]_vars

\* a no-session answer, past the first expiry, to an identity with no user
\* record, while another identity's session is pending
C14_Witness ==
  \E r \in Reqs :
    /\ Done(r) /\ reqs[r].result = "nosession" /\ reqs[r].at >= OtpTtlMs
    /\ reqs[r].otp \in Codes
    /\ \A u \in users : u.email # reqs[r].email
    /\ \E d \in otp_sessions : d.email # reqs[r].email

\* request r read a session holding the code it submitted
ReadMatching(r) == Read(r) /\ SessionRead(r).otp = reqs[r].otp

\* C15: a code request at time t stores expiresAt = t + 600 s; a verify with the
\* stored code succeeds when it reads at now <= expiresAt, the instant
\* expiresAt included, and is answered "expired" when it reads at
\* now > expiresAt, and only then.
C15_ExpiryBoundary ==
  /\ [][\A e \in Emails :
          PutStep(e) =>
            \A d \in SessionsOf(otp_sessions', e) : d.expiresAt = now + 600 * 1000]_vars
  /\ [](\A r \in Reqs :
          (Done(r) /\ ReadMatching(r))
            => IF reqs[r].at <= SessionRead(r).expiresAt
               THEN reqs[r].solo => reqs[r].result = "success"
               ELSE reqs[r].result = "expired")
  /\ [](\A r \in Reqs :
          (Read(r) /\ (reqs[r].pc = "deleteExpired" \/ reqs[r].result = "expired"))
            => reqs[r].at > SessionRead(r).expiresAt)

\* a first-try success exactly 600 s after the code was issued at time 0
C15_Witness ==
  \E r \in Reqs :
    /\ Done(r) /\ reqs[r].result = "success" /\ reqs[r].tries = 0
    /\ reqs[r].at = 600 * 1000 /\ SessionRead(r).expiresAt = 600 * 1000

\* C23: a verify whose storage call threw answers the infrastructure failure
\* and nothing else, and makes no further storage call: the store is as the
\* throwing call left it when the answer goes out; a code request whose upsert
\* threw answers the failure and stores nothing.
C23_StorageFailurePropagates ==
  /\ [](\A r \in Reqs : r \in fault.failed => (Done(r) /\ reqs[r].result = "error"))
  /\ [][\A r \in Reqs :
          (r \notin fault.failed /\ r \in fault'.failed)
            => (otp_sessions' = otp_sessions /\ users' = users)]_vars
  /\ [][\A r \in Reqs :
          r \in fault.failed
            => (otp_sessions' = otp_sessions /\ users' = users /\ reqs'[r] = IdleReq)]_vars
  /\ [][(fault'.put = "error" /\ fault.put # "error") => otp_sessions' = otp_sessions]_vars

\* the deleteOne of a verify that read the matching, unexpired session threw:
\* the answer is the failure, the session is still stored and no user was made
C23_Witness ==
  \E r \in Reqs :
    /\ r \in fault.failed /\ Done(r) /\ ReadMatching(r)
    /\ reqs[r].at <= SessionRead(r).expiresAt
    /\ reqs[r].session \subseteq otp_sessions /\ users = {}

\* the session documents a request-otp can store
SessionDocs ==
  {SessionDoc(e, n, c, t + OtpTtlMs) : e \in Emails, n \in FullNames, c \in Codes, t \in Instants}

\* C24: a stored session whose expiresAt the clock reaches is eventually not
\* stored, and none whose expiresAt is past stays stored for ever.
C24_SessionsDisappear ==
  /\ \A d \in SessionDocs :
       (d \in otp_sessions /\ d.expiresAt \in Instants) ~> (d \notin otp_sessions)
  /\ \A d \in SessionDocs :
       (d \in otp_sessions /\ d.expiresAt < now) ~> (d \notin otp_sessions)

\* the clock is past the lifetime of a session that was stored; no session is
\* stored and no verify has succeeded
C24_Witness == now > OtpTtlMs /\ otp_sessions = {} /\ users = {}

\* the number a string of decimal digits reads as
RECURSIVE Value(_)
Value(str) ==
  IF str = <<>> THEN 0 ELSE 10 * Value(SubSeq(str, 1, Len(str) - 1)) + str[Len(str)]

C26_SingleUseConcurrent == \A c \in Codes : wins[c] <= 1

\* the users with this email
UsersOf(coll, email) == {u \in coll : u.email = email}

C27_DeletesOnlyExamined ==
  [][\A r \in Reqs : DeleteStep(r)
       => (otp_sessions \ otp_sessions') \subseteq reqs[r].session]_vars

(* ---------------------- WebSocket: the claims ------------------------- *)

\* the step is a notify call sending a message of this type
DispatchStep(type) == nsent' = nsent + 1 /\ lastDispatch'.type = type

\* connection c was sent the latest message, as the newest frame of its socket
GotLatest(c) == inbox[c] # <<>> /\ inbox[c][Len(inbox[c])] = lastDispatch

Frames(c) == {inbox[c][i] : i \in DOMAIN inbox[c]}

\* C5: notifyNewImageUpload writes exactly one new_image_upload frame to every
\* connection that is in the registry, open and of role admin, and nothing to any
\* other connection.
C5_ReviewerFanOut ==
  [][DispatchStep("new_image_upload") =>
       \A c \in Conns :
         inbox'[c] = IF c \in clients /\ ws[c] = "OPEN" /\ client[c].role = "admin"
                     THEN Append(inbox[c], lastDispatch')
                     ELSE inbox[c]]_vars

\* an upload has reached the admin and neither the registered user nor, before
\* it registered, any other connection
C5_Witness ==
  /\ lastDispatch.type = "new_image_upload"
  /\ \E c, d \in clients :
       /\ ws[c] = "OPEN" /\ client[c].role = "admin" /\ GotLatest(c)
       /\ ws[d] = "OPEN" /\ client[d].role = "user" /\ lastDispatch \notin Frames(d)

\* C6: notifyImageEdited for user X writes exactly one image_edited frame to
\* every open connection of the registry registered as X, and nothing to a
\* connection registered as someone else or not registered; with no such
\* connection it writes nothing.
C6_SubmitterFanOut ==
  [][DispatchStep("image_edited") =>
       \A c \in Conns :
         inbox'[c] = IF /\ c \in clients /\ ws[c] = "OPEN"
                        /\ client[c] # Unset
                        /\ client[c].userId = lastDispatch'.userId
                     THEN Append(inbox[c], lastDispatch')
                     ELSE inbox[c]]_vars

\* two connections of the same user have both been told
C6_Witness ==
  /\ lastDispatch.type = "image_edited"
  /\ \E c, d \in clients :
       /\ c # d /\ GotLatest(c) /\ GotLatest(d)
       /\ client[c].userId = lastDispatch.userId
       /\ client[d].userId = lastDispatch.userId

\* C7: the registry never holds a connection whose close or error event has
\* been handled, and a connection of the registry whose socket has gone down
\* leaves the registry.
C7_NoLeak ==
  /\ [](\A c \in Conns : handled[c] > 0 => c \notin clients)
  /\ \A c \in Conns : (c \in clients /\ ws[c] = "CLOSED") ~> (c \notin clients)

\* a failed socket's connection has left the registry on its error event, its
\* close event still to come
C7_Witness ==
  \E c \in Conns :
    ws[c] = "CLOSED" /\ handled[c] = 1 /\ evq[c] = <<"close">> /\ c \notin clients

\* the step is a close or error handler of connection c
RemovalStep(c) == evq[c] # <<>> /\ evq'[c] = Tail(evq[c])

\* C8: removing a connection that is no longer in the registry (the close event
\* after the error event) leaves the registry, and every connection's identity
\* and role, as they were.
C8_IdempotentRemoval ==
  [][\A c \in Conns :
       (RemovalStep(c) /\ c \notin clients)
         => (clients' = clients /\ client' = client)]_vars

\* a second removal has run while a registered connection is in the registry
C8_Witness ==
  \E c \in Conns, d \in clients :
    handled[c] = 2 /\ c \notin clients /\ client[d] # Unset /\ ws[d] = "OPEN"

\* C9: the registry carries, for each connection, the identity and role of its
\* latest register frame, and the notify calls target by those alone.
C9_LastRegisterWins ==
  /\ [](\A c \in clients : client[c] = lastReg[c])
  /\ [][DispatchStep("new_image_upload") =>
          \A c \in Conns :
            inbox'[c] # inbox[c]
              <=> (c \in clients /\ ws[c] = "OPEN" /\ lastReg[c].role = "admin")]_vars
  /\ [][DispatchStep("image_edited") =>
          \A c \in Conns :
            inbox'[c] # inbox[c]
              <=> (c \in clients /\ ws[c] = "OPEN" /\ lastReg[c] # Unset
                     /\ lastReg[c].userId = lastDispatch'.userId)]_vars

\* a connection that got an upload as admin and has registered again as user was
\* not sent the next upload
C9_Witness ==
  /\ lastDispatch.type = "new_image_upload"
  /\ \E c \in clients :
       /\ ws[c] = "OPEN" /\ client[c].role = "user"
       /\ \E m \in Frames(c) : m.type = "new_image_upload" /\ m.id < lastDispatch.id
       /\ lastDispatch \notin Frames(c)

\* C10: the frames written to a connection are in the order of the notify calls
\* that sent them.
C10_PerConnectionFifo ==
  \A c \in Conns :
    \A i, j \in DOMAIN inbox[c] : i < j => inbox[c][i].id < inbox[c][j].id

\* a connection holds the greeting and then the messages of two notify calls of
\* different types
C10_Witness ==
  \E c \in Conns :
    /\ Len(inbox[c]) = 3
    /\ inbox[c][2].type # inbox[c][3].type

(* ------------------- the upload routes: the claims -------------------- *)

\* the step is a notify call
NotifyStep == nsent' = nsent + 1

\* connection c is one the message of this step's notify call is meant for
Matches(c) ==
  IF lastDispatch'.type = "new_image_upload"
  THEN client[c].role = "admin"
  ELSE client[c].userId = lastDispatch'.userId

\* the step is the failure of a socket a message had been written to
WriteFailure == dropped' # dropped

\* C11: a write that fails is absorbed. The route that made the notify call
\* answers success whatever becomes of the sockets written to; the failure of a
\* written socket, and the handling of its error and close events, change no
\* route's answer, write nothing and make no notify call; a socket is only ever
\* written the message of a new notify call (nothing is written again); and a
\* notify call writes to every open matching connection, whichever other
\* matching connections of the registry are down.
C11_PushFailureAbsorbed ==
  /\ [](up.sent = 1 => up.result = "ok")
  /\ [](ed.sent = 1 => ed.result = "ok")
  /\ [][WriteFailure =>
          /\ up' = up /\ ed' = ed /\ nsent' = nsent
          /\ \A d \in Conns : inbox'[d] # inbox[d] => (ws[d] = "OPEN" /\ ws'[d] = "CLOSED")]_vars
  /\ [][\A c \in Conns :
          RemovalStep(c) => (up' = up /\ ed' = ed /\ nsent' = nsent /\ inbox' = inbox)]_vars
  /\ [][\A c \in Conns :
          (inbox'[c] # inbox[c] /\ Len(inbox'[c]) > 1)
            => (NotifyStep /\ lastDispatch'.id = nsent'
                  /\ inbox'[c] = Append(inbox[c], lastDispatch'))]_vars
  /\ [][NotifyStep =>
          \A c \in clients :
            (ws[c] = "OPEN" /\ Matches(c)) => inbox'[c] = Append(inbox[c], lastDispatch')]_vars

\* of two admins written the same upload, one's socket has failed with the
\* message; the other holds it and the upload was answered with success
C11_Witness ==
  /\ lastDispatch.type = "new_image_upload" /\ lastDispatch.id \in dropped
  /\ up.pc = "done" /\ up.result = "ok" /\ up.sent = 1
  /\ \E c, d \in clients :
       /\ ws[c] = "CLOSED" /\ evq[c] = <<"error", "close">> /\ client[c].role = "admin"
       /\ ws[d] = "OPEN" /\ GotLatest(d)

\* C13: a notify call is made only by the step that answers a route with
\* success, one call for the request, of the route's message type and about a
\* document that is in the store (completed, for upload-edited); a route
\* answered otherwise (no file, no user fields, storage failure, request not
\* found) makes no call and writes to no socket.
C13_DispatchAfterPersistence ==
  [][/\ nsent' # nsent =>
          /\ NotifyStep
          /\ \/ /\ up.pc = "stored" /\ up'.pc = "done" /\ up'.result = "ok" /\ ed' = ed
                /\ lastDispatch'.type = "new_image_upload"
                /\ lastDispatch'.userId = up.userId
                /\ \E d \in image_requests : d.id = up.id /\ d.userId = up.userId
             \/ /\ ed.pc = "updated" /\ ed'.pc = "done" /\ ed'.result = "ok" /\ up' = up
                /\ lastDispatch'.type = "image_edited"
                /\ \E d \in image_requests :
                     /\ d.id = ed.id /\ d.status = "completed"
                     /\ d.userId = lastDispatch'.userId
     /\ \A route \in {<<up, up'>>, <<ed, ed'>>} :
          (route[2] # route[1] /\ route[2].pc = "done")
            => IF route[2].result = "ok"
               THEN NotifyStep /\ route[2].sent = 1
               ELSE nsent' = nsent /\ inbox' = inbox /\ route[2].sent = 0]_vars

\* an upload and its completion have each been announced once, the completion
\* to the uploader's connection
C13_Witness ==
  /\ nsent = 2 /\ lastDispatch.type = "image_edited"
  /\ up.result = "ok" /\ ed.result = "ok"
  /\ \E d \in image_requests : d.id = ed.id /\ d.status = "completed"
  /\ \E c \in clients : client[c].userId = lastDispatch.userId /\ GotLatest(c)

(* ------------------- the registry's frames: the claims ---------------- *)

\* the step is the message handler of connection c getting a frame that is not
\* a register frame
DropStep(c) == lastFrame'[c] \in {f.type : f \in OtherFrames} /\ lastFrame'[c] # lastFrame[c]

\* C16: a frame that cannot be parsed, or is not a register frame, leaves the
\* registry, every connection's identity and role, every socket's state and
\* what was written to it as they were, its own connection's included; and a
\* connection whose latest frame was such a frame is written the messages it
\* matches like any other.
C16_MalformedDropped ==
  /\ [][\A c \in Conns :
          DropStep(c) =>
            /\ c \in clients' /\ ws'[c] = "OPEN"
            /\ clients' = clients /\ client' = client /\ ws' = ws
            /\ evq' = evq /\ inbox' = inbox]_vars
  /\ [][NotifyStep =>
          \A c \in clients :
            (ws[c] = "OPEN" /\ Matches(c) /\ lastFrame[c] \in {f.type : f \in OtherFrames})
              => inbox'[c] = Append(inbox[c], lastDispatch')]_vars

\* an admin connection whose latest frame did not parse holds the latest upload
C16_Witness ==
  \E c \in clients :
    /\ lastFrame[c] = "unparseable" /\ client[c].role = "admin"
    /\ lastDispatch.type = "new_image_upload" /\ GotLatest(c)

\* the connection has sent no register frame since it was accepted
Unregistered(c) == c \in clients /\ ws[c] = "OPEN" /\ lastReg[c] = Unset

\* C17: a connection enters the registry with userId and role unset, and while
\* it has sent no register frame no dispatch writes to it: all it holds is the
\* connected greeting.
C17_UnregisteredGetsNothing ==
  /\ [][\A c \in Conns : (c \in clients' /\ c \notin clients) => client'[c] = Unset]_vars
  /\ [][\A c \in Conns : (NotifyStep /\ Unregistered(c)) => inbox'[c] = inbox[c]]_vars
  /\ [](\A c \in Conns : Unregistered(c) => inbox[c] = <<Connected>>)

\* a connection that has not registered holds the greeting alone while the
\* other one holds the latest upload
C17_Witness ==
  /\ Unregistered(1) /\ inbox[1] = <<Connected>>
  /\ 2 \in clients /\ lastDispatch.type = "new_image_upload" /\ GotLatest(2)

\* connection c is in the registry with its socket open
Live(c) == c \in clients /\ ws[c] = "OPEN"

\* C18: a notify call writes nothing to a connection that has left the registry
\* or whose socket is not open; whatever is written to a socket is the greeting
\* on its connection or, in a notify call, the one message of that call: a
\* message is written at the time of its call or never, also to a subscriber
\* that connects and registers afterwards.
C18_LiveOnlyNoReplay ==
  /\ [][\A c \in Conns : (NotifyStep /\ ~Live(c)) => inbox'[c] = inbox[c]]_vars
  /\ [][\A c \in Conns :
          inbox'[c] # inbox[c] =>
            \/ inbox'[c] = <<>>
            \/ inbox'[c] = <<Connected>> /\ ~Live(c) /\ Live(c)'
            \/ /\ NotifyStep /\ Live(c) /\ Matches(c)
               /\ lastDispatch'.id = nsent'
               /\ inbox'[c] = Append(inbox[c], lastDispatch')]_vars

\* the edit of u1's request was dispatched and reached no one; the open
\* connection now registered as u1 holds the greeting alone
C18_Witness ==
  /\ lastDispatch = [type |-> "image_edited", userId |-> "u1", id |-> 1]
  /\ \A d \in Conns : lastDispatch \notin Frames(d)
  /\ \E c \in Conns : Live(c) /\ client[c].userId = "u1" /\ inbox[c] = <<Connected>>

\* C19: the role of every connection of the registry is unset, "user" or
\* "admin", whatever register frames the clients have sent.
C19_RoleDomain == \A c \in clients : client[c].role \in {"", "user", "admin"}

(* -------------------- client presence agent: the claims --------------- *)

\* the step takes agent a from another state to Disconnected
Disconnects(a) == agent[a].state # "Disconnected" /\ agent'[a].state = "Disconnected"

\* C20: a transition to Disconnected by a close or error event schedules one
\* reconnect attempt and the second event of the same transport none; at most
\* one attempt is pending and at most one connection of an agent is open or
\* connecting; teardown cancels the pending attempt, and a torn down agent has
\* no attempt pending, no connection, and never leaves Disconnected.
C20_SingleReconnect ==
  /\ [](\A a \in Agents : agent[a].timers <= 1 /\ agent[a].transports <= 1)
  /\ [](\A a \in Agents : agent[a].timers + agent[a].transports <= 1)
  /\ [][\A a \in Agents :
          (Disconnects(a) /\ agent'[a].mounted)
            => agent'[a].timers = agent[a].timers + 1]_vars
  /\ [][\A a \in Agents :
          (agent[a].state = "Disconnected" /\ agent'[a].events # agent[a].events)
            => agent'[a].timers = agent[a].timers]_vars
  /\ [](\A a \in Agents :
          ~agent[a].mounted
            => /\ agent[a].timers = 0 /\ agent[a].transports = 0
               /\ agent[a].state = "Disconnected")
  /\ [][\A a \in Agents : ~agent[a].mounted => ~agent'[a].mounted]_vars

\* one agent has handled both events of a failed transport and has one attempt
\* pending; the other was torn down with an attempt pending and has handled the
\* close of no transport since
C20_Witness ==
  \E a, b \in Agents :
    /\ agent[a].mounted /\ agent[a].state = "Disconnected"
    /\ agent[a].events = <<>> /\ agent[a].timers = 1
    /\ ~agent[b].mounted /\ agent[b].timers = 0 /\ agent[b].events = <<>>

\* the step takes agent a into Connected
Connects(a) == agent[a].state # "Connected" /\ agent'[a].state = "Connected"

\* C21: an agent that enters Connected knowing an identity sends a register
\* frame for it, on the first connection and on every later one; an agent that
\* learns its identity while Connected sends it then; so a Connected agent
\* that knows its identity has announced it on its current connection, and a
\* register frame never carries another identity than the agent's.
C21_Announces ==
  /\ [][\A a \in Agents :
          (Connects(a) /\ agent[a].identity # "")
            => agent'[a].announced = agent[a].identity]_vars
  /\ [][\A a \in Agents :
          (agent[a].state = "Connected" /\ agent[a].events = <<>> /\ agent[a].transports > 0
             /\ agent[a].identity = "" /\ agent'[a].identity # "")
            => agent'[a].announced = agent'[a].identity]_vars
  /\ [](\A a \in Agents :
          (agent[a].state = "Connected" /\ agent[a].transports > 0 /\ agent[a].identity # "")
            => agent[a].announced = agent[a].identity)
  /\ [](\A a \in Agents : agent[a].announced \in {"", agent[a].identity})

\* one agent is Connected again after a reconnect and has announced its
\* identity on the new connection; the other is Connected and knows none
C21_Witness ==
  \E a, b \in Agents :
    /\ agent[a].state = "Connected" /\ agent[a].reconnected /\ agent[a].transports = 1
    /\ agent[a].announced = "u1"
    /\ agent[b].state = "Connected" /\ agent[b].identity = "" /\ agent[b].announced = ""

(* ------------------------ the browser: the claims --------------------- *)

\* C22: the admin dashboard is rendered only while a user of role admin is
\* logged in.
C22_AdminRouteProtected == Page = "AdminDashboard" => auth.user.role = "admin"

\* C29: once logout has run the user stays null until a verifyOtp call made
\* after that logout succeeds: the response of a call that was in flight when
\* logout ran does not set the user.
C29_LogoutFinal ==
  [][(auth.user = NoUser /\ auth'.user # NoUser)
       => \E k \in CallIds :
            /\ auth.calls[k].kind = "verify" /\ ~auth.calls[k].stale
            /\ auth'.calls[k] = IdleCall]_vars

\* the step hands an image_edited message to handleWebSocketMessage
EditedApplied ==
  dash.wsq # <<>> /\ Head(dash.wsq).type = "image_edited" /\ dash'.wsq = Tail(dash.wsq)

\* C30: the dashboard's list never loses or duplicates a notified request:
\* once a new_image_upload for a request has been applied the request is in
\* the list after every later step, fetch responses included; no two entries
\* of the list have the same id; and an image_edited changes only the entry
\* with its id, to completed.
C30_ListKeepsNotified ==
  /\ [][\A id \in dash.applied : id \in Ids(dash'.requests)]_vars
  /\ [](\A i, j \in 1..Len(dash.requests) :
          dash.requests[i].id = dash.requests[j].id => i = j)
  /\ [][EditedApplied =>
          /\ Len(dash'.requests) = Len(dash.requests)
          /\ \A i \in 1..Len(dash.requests) :
               dash'.requests[i] =
                 IF dash.requests[i].id = Head(dash.wsq).id
                 THEN Entry(dash.requests[i].id, "completed")
                 ELSE dash.requests[i]]_vars

====
